---------------------------- MODULE Spec2Model ----------------------------
(***************************************************************************)
(* org-roam-web: the static-site build pipeline (Renderer.Build), the      *)
(* graph engine (BuildGraph, LocalGraph), the search index (BuildIndex)    *)
(* and the watcher of serve mode (serveCmd).  Spec is a Build and its      *)
(* rebuild on unchanged inputs; SpecServe is the watch goroutine with its  *)
(* debounce timers and the rebuilds they start.                            *)
(*                                                                         *)
(* Strings that the code inspects character by character (file names,      *)
(* glob patterns) are sequences of one-character strings.  A time.Time is  *)
(* the pair [day: YYYYMMDD, sec: hhmmss] of its UTC instant; comparing the *)
(* pairs orders instants exactly as time.Time.After does.                  *)
(***************************************************************************)
EXTENDS Integers, Sequences, FiniteSets, TLC

(***************************************************************************)
(* Bounds of the model.                                                    *)
(***************************************************************************)
MaxLinks == 2
MaxRecent == 3
\* Serve mode: the qualifying events handled, and the clock's last value in
\* milliseconds.
MaxEvents == 3
MaxTime == 1500

(***************************************************************************)
(* The universe of node ids (ids of loaded nodes and ids that occur only   *)
(* as link endpoints) and of tags.                                         *)
(***************************************************************************)
Ids == {"A", "B", "C"}
Tags == {"draft", "x"}

(***************************************************************************)
(* Generic helpers.                                                        *)
(***************************************************************************)
Range(s) == {s[i] : i \in DOMAIN s}

Perms(S) == {f \in [1..Cardinality(S) -> S] : \A x \in S : \E i \in DOMAIN f : f[i] = x}

SeqsUpTo(S, n) == UNION {[1..k -> S] : k \in 0..n}

Min(a, b) == IF a < b THEN a ELSE b

\* Go map lookup m[k] on a map of slices: the zero value (nil, no elements)
\* when the key is absent.
Lookup(m, k) == IF k \in DOMAIN m THEN m[k] ELSE <<>>

(***************************************************************************)
(* File names of the corpus, as character sequences.                       *)
(***************************************************************************)
FileA == <<"2","0","2","3","0","1","0","1","0","0","0","0","0","0","-","a",".","o","r","g">>
FileB == <<"2","0","2","4","0","1","0","1","0","0","0","0","0","0","-","b",".","o","r","g">>
FileC == <<"r","e","f","/","p","2","0","2","4",".","o","r","g">>
FileD == <<"n",".","o","r","g">>
FileE == <<"2","0","2","4","1","3","0","1","0","0","0","0","0","0","-","e",".","o","r","g">>

Digits == <<"0","1","2","3","4","5","6","7","8","9">>

DigitSet == Range(Digits)

DigitValues == [c \in DigitSet |-> (CHOOSE i \in DOMAIN Digits : Digits[i] = c) - 1]

IsDigit(c) == c \in DigitSet

DigitVal(c) == DigitValues[c]

RECURSIVE Atoi(_)
Atoi(s) == IF s = <<>> THEN 0 ELSE 10 * Atoi(SubSeq(s, 1, Len(s) - 1)) + DigitVal(s[Len(s)])

AllDigits(s) == \A i \in DOMAIN s : IsDigit(s[i])

\* filepath.Base: the last element of the path; "." for the empty path and
\* "/" for a path of slashes only.
RECURSIVE StripTrailingSlashes(_)
StripTrailingSlashes(p) ==
    IF p # <<>> /\ p[Len(p)] = "/" THEN StripTrailingSlashes(SubSeq(p, 1, Len(p) - 1)) ELSE p

Base(path) ==
    IF path = <<>> THEN <<".">>
    ELSE LET s == StripTrailingSlashes(path)
             slashes == {i \in DOMAIN s : s[i] = "/"}
             last == IF slashes = {} THEN 0 ELSE CHOOSE i \in slashes : \A j \in slashes : j <= i
         IN  IF s = <<>> THEN <<"/">> ELSE SubSeq(s, last + 1, Len(s))

\* filepath.Match for patterns of literals, '*' (any run of non-separator
\* characters) and '?' (one non-separator character).
RECURSIVE Match(_, _)
Match(pattern, name) ==
    IF pattern = <<>> THEN name = <<>>
    ELSE IF Head(pattern) = "*"
         THEN \E k \in 0..Len(name) :
                 /\ \A i \in 1..k : name[i] # "/"
                 /\ Match(Tail(pattern), SubSeq(name, k + 1, Len(name)))
    ELSE IF name = <<>> THEN FALSE
    ELSE IF Head(pattern) = "?" THEN Head(name) # "/" /\ Match(Tail(pattern), Tail(name))
    ELSE Head(pattern) = Head(name) /\ Match(Tail(pattern), Tail(name))

(***************************************************************************)
(* Times.                                                                  *)
(***************************************************************************)
Time(day, sec) == [day |-> day, sec |-> sec]

\* time.Time{}: January 1 of year 1, 00:00:00.
ZeroTime == Time(10101, 0)

\* No time: the error result of time.Parse and of os.Stat.
NoStat == Time(0, 0)

IsLeap(y) == (y % 4 = 0 /\ y % 100 # 0) \/ y % 400 = 0

DaysIn(y, m) ==
    IF m = 2 THEN (IF IsLeap(y) THEN 29 ELSE 28)
    ELSE IF m \in {4, 6, 9, 11} THEN 30 ELSE 31

\* time.Parse("20060102150405", s) on a 14-character string: the error case
\* is NoStat (no time), otherwise the instant.
ParseTimestamp(s) ==
    IF ~AllDigits(s) THEN NoStat
    ELSE LET y  == Atoi(SubSeq(s, 1, 4))
             mo == Atoi(SubSeq(s, 5, 6))
             d  == Atoi(SubSeq(s, 7, 8))
             h  == Atoi(SubSeq(s, 9, 10))
             mi == Atoi(SubSeq(s, 11, 12))
             sec == Atoi(SubSeq(s, 13, 14))
         IN  IF /\ mo \in 1..12
                /\ d >= 1 /\ d <= DaysIn(y, mo)
                /\ h <= 23 /\ mi <= 59 /\ sec <= 59
             THEN Time(Atoi(SubSeq(s, 1, 8)), Atoi(SubSeq(s, 9, 14)))
             ELSE NoStat

\* time.Date(year, 6, 1, 0, 0, 0, 0, time.UTC)
MidYear(year) == Time(year * 10000 + 601, 0)

\* extractDateFromFilename; stat is the file system's answer to os.Stat
\* (file name -> modification time, NoStat when the file cannot be read).
extractDateFromFilename(filename, stat) ==
    LET base == Base(filename)
        n == Len(base)
        ts == IF n >= 14 THEN ParseTimestamp(SubSeq(base, 1, 14)) ELSE NoStat
        yearAtEnd == /\ n >= 8
                     /\ SubSeq(base, n - 3, n) = <<".", "o", "r", "g">>
                     /\ AllDigits(SubSeq(base, n - 7, n - 4))
    IN  IF ts # NoStat THEN ts
        ELSE IF yearAtEnd THEN MidYear(Atoi(SubSeq(base, n - 7, n - 4)))
        ELSE IF filename \in DOMAIN stat /\ stat[filename] # NoStat THEN stat[filename]
        ELSE ZeroTime

\* time.Time.After
After(t, u) == t.day > u.day \/ (t.day = u.day /\ t.sec > u.sec)


(***************************************************************************)
(* Corpus & filtering.                                                     *)
(* A db.Node is [ID, File, Title]; a db.Link is [Source, Target].          *)
(***************************************************************************)
IdsOf(nodes) == {nodes[i].ID : i \in DOMAIN nodes}

\* filterNodes: one pass over the loaded nodes, appending the nodes that no
\* exclusion rule hits.  exclude is cfg.Exclude: Tags and IDs (turned into
\* lookup maps by the code, so sets here) and Files, the list of patterns.
\* Variant: the patterns are matched against the whole path of the file.
NodeExcludedByPath(n, nodeTags, exclude) ==
    \/ n.ID \in exclude.IDs
    \/ \E i \in DOMAIN Lookup(nodeTags, n.ID) : Lookup(nodeTags, n.ID)[i] \in exclude.Tags
    \/ \E i \in DOMAIN exclude.Files : Match(exclude.Files[i], n.File)

NodeExcluded(n, nodeTags, exclude) ==
    \/ n.ID \in exclude.IDs
    \/ \E i \in DOMAIN Lookup(nodeTags, n.ID) : Lookup(nodeTags, n.ID)[i] \in exclude.Tags
    \/ \E i \in DOMAIN exclude.Files : Match(exclude.Files[i], Base(n.File))

RECURSIVE filterNodes(_, _, _)
filterNodes(nodes, nodeTags, exclude) ==
    IF nodes = <<>> THEN <<>>
    ELSE LET n == nodes[Len(nodes)]
             filtered == filterNodes(SubSeq(nodes, 1, Len(nodes) - 1), nodeTags, exclude)
         IN  IF NodeExcluded(n, nodeTags, exclude) THEN filtered ELSE Append(filtered, n)

(***************************************************************************)
(* Graph engine.                                                           *)
(***************************************************************************)
Inc(m, k) == [m EXCEPT ![k] = @ + 1]

\* The linkCount loops of BuildGraph and LocalGraph: a link whose two
\* endpoints are in the lookup set increments its source and its target.
\* Variant: every link is counted, whatever its endpoints.
RECURSIVE linkCountRaw(_, _)
linkCountRaw(links, set) ==
    IF links = <<>> THEN [id \in Ids |-> 0]
    ELSE LET l == links[Len(links)]
             m == linkCountRaw(SubSeq(links, 1, Len(links) - 1), set)
         IN  Inc(Inc(m, l.Source), l.Target)

RECURSIVE linkCount(_, _)
linkCount(links, set) ==
    IF links = <<>> THEN [id \in Ids |-> 0]
    ELSE LET l == links[Len(links)]
             m == linkCount(SubSeq(links, 1, Len(links) - 1), set)
         IN  IF l.Source \in set /\ l.Target \in set THEN Inc(Inc(m, l.Source), l.Target) ELSE m

\* The "add links" loops: the links whose two endpoints are in the lookup
\* set, in link order.
RECURSIVE addLinks(_, _)
addLinks(links, set) ==
    IF links = <<>> THEN <<>>
    ELSE LET l == links[Len(links)]
             g == addLinks(SubSeq(links, 1, Len(links) - 1), set)
         IN  IF l.Source \in set /\ l.Target \in set
             THEN Append(g, [Source |-> l.Source, Target |-> l.Target])
             ELSE g

GraphNode(n, nodeTags, counts) ==
    [ID |-> n.ID, Title |-> n.Title, Tags |-> Lookup(nodeTags, n.ID), LinkCount |-> counts[n.ID]]

EmptyGraph == [Nodes |-> <<>>, Links |-> <<>>]

BuildGraph(nodes, links, nodeTags) ==
    LET nodeSet == IdsOf(nodes)
        counts == linkCount(links, nodeSet)
    IN  [Nodes |-> [i \in DOMAIN nodes |-> GraphNode(nodes[i], nodeTags, counts)],
         Links |-> addLinks(links, nodeSet)]

\* LocalGraph's adjacency list: every link appends its target to the
\* source's neighbours and its source to the target's neighbours.
RECURSIVE adjacency(_)
adjacency(links) ==
    IF links = <<>> THEN [id \in Ids |-> <<>>]
    ELSE LET l == links[Len(links)]
             a == adjacency(SubSeq(links, 1, Len(links) - 1))
             b == [a EXCEPT ![l.Source] = Append(@, l.Target)]
         IN  [b EXCEPT ![l.Target] = Append(@, l.Source)]

\* The inner loop of the traversal: the unvisited neighbours of curr are
\* marked visited and queued one hop further.  st is [visited, queue].
\* Variant: a neighbour is queued at the depth of curr, not one hop further.
RECURSIVE expandSameDepth(_, _, _)
expandSameDepth(neighbors, curr, st) ==
    IF neighbors = <<>> THEN st
    ELSE LET nb == Head(neighbors)
             next == IF nb \notin st.visited
                     THEN [visited |-> st.visited \cup {nb},
                           queue |-> Append(st.queue, [id |-> nb, depth |-> curr.depth])]
                     ELSE st
         IN  expandSameDepth(Tail(neighbors), curr, next)

RECURSIVE expand(_, _, _)
expand(neighbors, curr, st) ==
    IF neighbors = <<>> THEN st
    ELSE LET nb == Head(neighbors)
             next == IF nb \notin st.visited
                     THEN [visited |-> st.visited \cup {nb},
                           queue |-> Append(st.queue, [id |-> nb, depth |-> curr.depth + 1])]
                     ELSE st
         IN  expand(Tail(neighbors), curr, next)

\* The skip test of the traversal loop: an entry at the depth limit is not
\* expanded.  Variants: the limit is one hop late; only entries off the
\* limit are skipped.
AtLimitLate(curr, depth) == curr.depth > depth

AtLimitOff(curr, depth) == curr.depth # depth

AtLimit(curr, depth) == curr.depth >= depth

\* The traversal loop: pop the head of the queue, expand it unless it is at
\* the depth limit.
RECURSIVE bfs(_, _, _)
bfs(st, depth, adj) ==
    IF st.queue = <<>> THEN st.visited
    ELSE LET curr == Head(st.queue)
             rest == [st EXCEPT !.queue = Tail(@)]
         IN  IF AtLimit(curr, depth) THEN bfs(rest, depth, adj)
             ELSE bfs(expand(adj[curr.id], curr, rest), depth, adj)

\* The visited set of LocalGraph.
Visited(nodeID, depth, links) ==
    bfs([visited |-> {nodeID}, queue |-> <<[id |-> nodeID, depth |-> 0]>>], depth, adjacency(links))

\* LocalGraph; order is the order in which `range visited` yields the
\* visited ids (Go leaves map iteration order unspecified).
LocalGraph(nodeID, depth, nodes, links, nodeTags, order) ==
    LET visited == Visited(nodeID, depth, links)
        counts == linkCount(links, visited)
        known == SelectSeq(order, LAMBDA id : id \in IdsOf(nodes))
        nodeMap == [id \in IdsOf(nodes) |->
                      LET last == CHOOSE i \in DOMAIN nodes :
                                     nodes[i].ID = id /\ \A j \in DOMAIN nodes : nodes[j].ID = id => j <= i
                      IN  nodes[last]]
    IN  [Nodes |-> [i \in DOMAIN known |-> GraphNode(nodeMap[known[i]], nodeTags, counts)],
         Links |-> addLinks(links, visited)]

(***************************************************************************)
(* Search index.                                                           *)
(***************************************************************************)
\* Variant: a node without an entry in the tag map gets no search entry.
BuildIndexTagged(nodes, nodeTags) ==
    LET tagged == SelectSeq(nodes, LAMBDA n : n.ID \in DOMAIN nodeTags)
    IN  [Entries |-> [i \in DOMAIN tagged |->
                        [ID |-> tagged[i].ID, Title |-> tagged[i].Title, Tags |-> nodeTags[tagged[i].ID]]]]

BuildIndex(nodes, nodeTags) ==
    [Entries |-> [i \in DOMAIN nodes |->
                    [ID |-> nodes[i].ID, Title |-> nodes[i].Title, Tags |-> Lookup(nodeTags, nodes[i].ID)]]]

(***************************************************************************)
(* Page view models.                                                       *)
(***************************************************************************)
\* sort.Slice(s, less): some permutation of s in which no element is "less"
\* than an earlier one; less is the set of the pairs <<a, b>> with a less
\* than b.  sort.Slice is not stable, so every such permutation is a
\* possible result.
SortSlice(s, less) ==
    {t \in {[i \in DOMAIN s |-> s[p[i]]] : p \in Perms(DOMAIN s)} :
        \A i, j \in DOMAIN t : i < j => <<t[j], t[i]>> \notin less}

NotePreview(n, nodeTags, date) ==
    [ID |-> n.ID, Title |-> n.Title, Tags |-> Lookup(nodeTags, n.ID), ModTime |-> date]

\* The "take recent notes" part of generateHome.
\* Variant: every sorted note is taken, whatever recent_count is.
recentNotesAll(sorted, count, nodeTags, stat) ==
    [i \in 1..Len(sorted) |->
        NotePreview(sorted[i], nodeTags, extractDateFromFilename(sorted[i].File, stat))]

recentNotes(sorted, count, nodeTags, stat) ==
    [i \in 1..Min(count, Len(sorted)) |->
        NotePreview(sorted[i], nodeTags, extractDateFromFilename(sorted[i].File, stat))]

\* The link and backlink loops of generateNote: the ids found in the
\* visible-node map, each with its title.
\* Variant: an id missing from the visible-node map is kept, without title.
resolveAny(ids, nodeMap) ==
    [i \in DOMAIN ids |-> [ID |-> ids[i], Title |-> IF ids[i] \in DOMAIN nodeMap THEN nodeMap[ids[i]] ELSE ""]]

resolve(ids, nodeMap) ==
    LET seen == SelectSeq(ids, LAMBDA id : id \in DOMAIN nodeMap)
    IN  [i \in DOMAIN seen |-> [ID |-> seen[i], Title |-> nodeMap[seen[i]]]]

\* parser.ParseFile's Links: the identifier links found in the body of the
\* note, which are the links the database records with the note as source.
RECURSIVE parsedLinks(_, _)
parsedLinks(id, links) ==
    IF links = <<>> THEN <<>>
    ELSE LET rest == parsedLinks(id, Tail(links))
         IN  IF Head(links).Source = id THEN <<Head(links).Target>> \o rest ELSE rest

\* The backlinks loop of loadData: each link appends its source to the
\* list of its target.
\* Variant: a source already in the list of the target is not appended again.
RECURSIVE backlinksOnce(_, _)
backlinksOnce(links, backlinks) ==
    IF links = <<>> THEN backlinks
    ELSE LET l == Head(links)
         IN  backlinksOnce(Tail(links),
                           IF l.Source \in Range(backlinks[l.Target]) THEN backlinks
                           ELSE [backlinks EXCEPT ![l.Target] = Append(@, l.Source)])

RECURSIVE backlinksOf(_, _)
backlinksOf(links, backlinks) ==
    IF links = <<>> THEN backlinks
    ELSE backlinksOf(Tail(links),
                     [backlinks EXCEPT ![Head(links).Target] = Append(@, Head(links).Source)])

\* The tag-count loop of generateGraph, over the whole node -> tags map.
RECURSIVE countIn(_, _)
countIn(tags, t) ==
    IF tags = <<>> THEN 0 ELSE (IF Head(tags) = t THEN 1 ELSE 0) + countIn(Tail(tags), t)

RECURSIVE sumOver(_, _, _)
sumOver(ids, nodeTags, t) ==
    IF ids = {} THEN 0
    ELSE LET id == CHOOSE x \in ids : TRUE
         IN  countIn(nodeTags[id], t) + sumOver(ids \ {id}, nodeTags, t)

tagCounts(nodeTags) ==
    LET seen == UNION {Range(nodeTags[id]) : id \in DOMAIN nodeTags}
    IN  [t \in seen |-> sumOver(DOMAIN nodeTags, nodeTags, t)]

\* sort.Strings on tags: TagOrder lists the tags in lexicographic order.
TagOrder == <<"draft", "x">>

sortStrings(tagSet) == SelectSeq(TagOrder, LAMBDA t : t \in tagSet)

TopTagsLimit == 10

\* The grouping loop of generateTags: every published node is appended to
\* the list of each tag it carries.
RECURSIVE tagNotes(_, _)
tagNotes(nodes, nodeTags) ==
    IF nodes = <<>> THEN [t \in {} |-> <<>>]
    ELSE LET n == nodes[Len(nodes)]
             m == tagNotes(SubSeq(nodes, 1, Len(nodes) - 1), nodeTags)
             tags == Lookup(nodeTags, n.ID)
             preview == [ID |-> n.ID, Title |-> n.Title, Tags |-> tags]
         IN  [t \in DOMAIN m \cup Range(tags) |->
                 Lookup(m, t) \o [k \in 1..countIn(tags, t) |-> preview]]

(***************************************************************************)
(* State.                                                                  *)
(*   db      the note database: nodes, tags (node id -> tag list), links   *)
(*   cfg     the configuration: Exclude (Tags, IDs, Files) and Display     *)
(*   stat    the file system's modification times (os.Stat)                *)
(*   pc      the position of Build                                         *)
(*   r       the Renderer: nodes, links, nodeTags, nodeMap, backlinks      *)
(*   noteIdx the position of generateNotes' loop over r.nodes              *)
(*   files   the single-file artifacts the current Build has written       *)
(*   noteFiles the ids of the notes whose page the current Build has written*)
(*   notePage  the view model of the note page rendered last               *)
(*   home, graphPage, tagPages, searchJSON, graphJSON                      *)
(*           the contents of the artifacts the current Build has written   *)
(*   run     the number of the current Build                               *)
(*   prev    search.json and graph.json as the previous Build left them    *)
(*   unparsable the files parser.ParseFile returns an error for            *)
(*   err     the error Build has returned ("" while it has returned none)  *)
(*   warned  the ids of the notes generateNotes has printed a warning for  *)
(* Serve mode (serveCmd):                                                  *)
(*   now     the clock, in milliseconds                                    *)
(*   timers  the pending time.AfterFunc timers: [id, deadline]             *)
(*   debounceTimer the timer the watch goroutine holds (0: nil)            *)
(*   rebuilds the goroutines of the timer callbacks, by timer id:          *)
(*           [pc, at, last], started at time at, when the last qualifying  *)
(*           event had been handled at time last                           *)
(*   events  the number of qualifying events the watch goroutine has       *)
(*           handled                                                       *)
(*   lastEvent the time at which it handled the last of them               *)
(*   bursts  the number of those that found no timer pending               *)
(***************************************************************************)
VARIABLES db, cfg, stat, unparsable, pc, r, noteIdx, files, home, noteFiles, notePage,
          graphPage, tagPages, searchJSON, graphJSON, run, prev, err, warned,
          now, timers, debounceTimer, rebuilds, events, lastEvent, bursts

vars == <<db, cfg, stat, unparsable, pc, r, noteIdx, files, home, noteFiles, notePage,
          graphPage, tagPages, searchJSON, graphJSON, run, prev, err, warned,
          now, timers, debounceTimer, rebuilds, events, lastEvent, bursts>>

inputs == <<db, cfg, stat, unparsable>>

outcome == <<err, warned>>

serve == <<now, timers, debounceTimer, rebuilds, events, lastEvent, bursts>>

artifacts == <<files, home, noteFiles, notePage, graphPage, tagPages, searchJSON, graphJSON>>

NoPages == [x \in {} |-> <<>>]

EmptyIndex == [Entries |-> <<>>]

EmptyNotePage ==
    [ID |-> "", Title |-> "", Tags |-> <<>>, Links |-> <<>>, Backlinks |-> <<>>,
     LocalGraph |-> EmptyGraph, HasGraph |-> FALSE, ModTime |-> ZeroTime]

EmptyGraphPage == [GraphJSON |-> EmptyGraph, AllTags |-> <<>>, TopTags |-> <<>>]

\* NewRenderer: empty nodeMap and backlinks, nothing loaded.
NewRenderer ==
    [nodes |-> <<>>, links |-> <<>>, nodeTags |-> NoPages,
     nodeMap |-> NoPages, backlinks |-> [id \in Ids |-> <<>>]]

(***************************************************************************)
(* Build, step by step.                                                    *)
(***************************************************************************)
\* The node-map loop of loadData: ID -> Title of the published nodes.
RECURSIVE nodeMapOf(_, _)
nodeMapOf(nodes, nodeMap) ==
    IF nodes = <<>> THEN nodeMap
    ELSE LET n == Head(nodes)
         IN  nodeMapOf(Tail(nodes),
                       [id \in DOMAIN nodeMap \cup {n.ID} |->
                           IF id = n.ID THEN n.Title ELSE nodeMap[id]])

LoadData ==
    /\ pc = "loadData"
    /\ LET filtered == filterNodes(db.nodes, db.tags, cfg.Exclude)
       IN  r' = [nodes |-> filtered,
                 nodeTags |-> db.tags,
                 links |-> db.links,
                 nodeMap |-> nodeMapOf(filtered, r.nodeMap),
                 backlinks |-> backlinksOf(db.links, r.backlinks)]
    /\ pc' = "mkdir"
    /\ UNCHANGED <<inputs, noteIdx, artifacts, run, prev, outcome, serve>>

\* The errors loadData returns: db.Open, LoadNodes, LoadTags or LoadLinks
\* has failed.
LoadErrors ==
    {"failed to open database", "failed to load nodes",
     "failed to load tags", "failed to load links"}

\* Variant: the output directory is created before the corpus is loaded, so
\* that a failed load is found after MkdirAll.
LoadDataFailLate ==
    /\ pc = "home"
    /\ \E e \in LoadErrors : err' = e
    /\ pc' = "failed"
    /\ UNCHANGED <<inputs, r, noteIdx, artifacts, run, prev, warned, serve>>

\* loadData returns an error, before it assigns any field of the Renderer,
\* and Build returns that error.
LoadDataFail ==
    /\ pc = "loadData"
    /\ \E e \in LoadErrors : err' = e
    /\ pc' = "failed"
    /\ UNCHANGED <<inputs, r, noteIdx, artifacts, run, prev, warned, serve>>

\* os.MkdirAll(OutputDir) in Build.
MkdirAll ==
    /\ pc = "mkdir"
    /\ files' = files \cup {"dist"}
    /\ pc' = "home"
    /\ UNCHANGED <<inputs, r, noteIdx, home, noteFiles, notePage, graphPage, tagPages,
                   searchJSON, graphJSON, run, prev, outcome, serve>>

\* The comparison generateHome sorts with: the later date first.
homeLess(nodes) ==
    {p \in Range(nodes) \X Range(nodes) :
        After(extractDateFromFilename(p[1].File, stat), extractDateFromFilename(p[2].File, stat))}

GenerateHome ==
    /\ pc = "home"
    /\ \E sorted \in SortSlice(r.nodes, homeLess(r.nodes)) :
          home' = recentNotes(sorted, cfg.Display.RecentCount, r.nodeTags, stat)
    /\ files' = files \cup {"index.html"}
    /\ pc' = "notes"
    /\ UNCHANGED <<inputs, r, noteIdx, noteFiles, notePage, graphPage, tagPages,
                   searchJSON, graphJSON, run, prev, outcome, serve>>

\* generateNotes up to its loop.
GenerateNotes ==
    /\ pc = "notes"
    /\ noteIdx' = 1
    /\ pc' = IF r.nodes = <<>> THEN "graph" ELSE "note"
    /\ UNCHANGED <<inputs, r, artifacts, run, prev, outcome, serve>>

\* The page generateNote renders for node n.
NoteData(n, order) ==
    LET localG == LocalGraph(n.ID, cfg.Display.LocalGraphDepth, r.nodes, r.links, r.nodeTags, order)
    IN  [ID |-> n.ID,
         Title |-> n.Title,
         Tags |-> Lookup(r.nodeTags, n.ID),
         Links |-> resolve(parsedLinks(n.ID, r.links), r.nodeMap),
         Backlinks |-> resolve(r.backlinks[n.ID], r.nodeMap),
         LocalGraph |-> localG,
         HasGraph |-> Len(localG.Nodes) > 1,
         ModTime |-> extractDateFromFilename(n.File, stat)]

\* Variant: generateNotes returns the error of generateNote, and Build
\* returns it.
GenerateNoteAbort ==
    /\ pc = "note"
    /\ r.nodes[noteIdx].File \in unparsable
    /\ err' = "failed to parse"
    /\ pc' = "failed"
    /\ UNCHANGED <<inputs, r, noteIdx, artifacts, run, prev, warned, serve>>

\* One iteration of generateNotes' loop in which ParseFile fails:
\* generateNote returns the error, generateNotes prints a warning and goes
\* on with the next node.
GenerateNoteFail ==
    /\ pc = "note"
    /\ r.nodes[noteIdx].File \in unparsable
    /\ warned' = warned \cup {r.nodes[noteIdx].ID}
    /\ noteIdx' = noteIdx + 1
    /\ pc' = IF noteIdx = Len(r.nodes) THEN "graph" ELSE "note"
    /\ UNCHANGED <<inputs, r, artifacts, run, prev, err, serve>>

\* One iteration of generateNotes' loop: generateNote for r.nodes[noteIdx],
\* whose file parses.
GenerateNote ==
    /\ pc = "note"
    /\ r.nodes[noteIdx].File \notin unparsable
    /\ LET n == r.nodes[noteIdx]
       IN  \E order \in Perms(Visited(n.ID, cfg.Display.LocalGraphDepth, r.links)) :
              notePage' = NoteData(n, order)
    /\ noteFiles' = noteFiles \cup {r.nodes[noteIdx].ID}
    /\ noteIdx' = noteIdx + 1
    /\ pc' = IF noteIdx = Len(r.nodes) THEN "graph" ELSE "note"
    /\ UNCHANGED <<inputs, r, files, home, graphPage, tagPages, searchJSON, graphJSON,
                   run, prev, outcome, serve>>

\* The top-tags part of generateGraph: the tags of tagCounts, collected in
\* map order and sorted by count descending with sort.Slice, cut to ten.
topTags(counts) ==
    LET tagLess == {p \in (DOMAIN counts) \X (DOMAIN counts) : counts[p[1]] > counts[p[2]]}
    IN  {SubSeq(t, 1, Min(TopTagsLimit, Len(t))) :
            t \in UNION {SortSlice(o, tagLess) : o \in Perms(DOMAIN counts)}}

GenerateGraph ==
    /\ pc = "graph"
    /\ LET counts == tagCounts(r.nodeTags)
       IN  \E top \in topTags(counts) :
              graphPage' = [GraphJSON |-> BuildGraph(r.nodes, r.links, r.nodeTags),
                            AllTags |-> sortStrings(DOMAIN counts),
                            TopTags |-> top]
    /\ files' = files \cup {"graph.html"}
    /\ pc' = "tags"
    /\ UNCHANGED <<inputs, r, noteIdx, home, noteFiles, notePage, tagPages, searchJSON, graphJSON,
                   run, prev, outcome, serve>>

GenerateTags ==
    /\ pc = "tags"
    /\ tagPages' = tagNotes(r.nodes, r.nodeTags)
    /\ pc' = "images"
    /\ UNCHANGED <<inputs, r, noteIdx, files, home, noteFiles, notePage, graphPage, searchJSON,
                   graphJSON, run, prev, outcome, serve>>

\* copyImages touches none of the artifacts modelled here.
CopyImages ==
    /\ pc = "images"
    /\ pc' = "search"
    /\ UNCHANGED <<inputs, r, noteIdx, artifacts, run, prev, outcome, serve>>

\* Variant: the entries are written in the order a range over a map of the
\* published ids yields them.
GenerateSearchIndexByMap ==
    /\ pc = "search"
    /\ \E order \in Perms(DOMAIN r.nodes) :
          searchJSON' = BuildIndex([i \in DOMAIN r.nodes |-> r.nodes[order[i]]], r.nodeTags)
    /\ files' = files \cup {"search.json"}
    /\ pc' = "graphJSON"
    /\ UNCHANGED <<inputs, r, noteIdx, home, noteFiles, notePage, graphPage, tagPages, graphJSON,
                   run, prev, outcome, serve>>

GenerateSearchIndex ==
    /\ pc = "search"
    /\ searchJSON' = BuildIndex(r.nodes, r.nodeTags)
    /\ files' = files \cup {"search.json"}
    /\ pc' = "graphJSON"
    /\ UNCHANGED <<inputs, r, noteIdx, home, noteFiles, notePage, graphPage, tagPages, graphJSON,
                   run, prev, outcome, serve>>

GenerateGraphJSON ==
    /\ pc = "graphJSON"
    /\ graphJSON' = BuildGraph(r.nodes, r.links, r.nodeTags)
    /\ files' = files \cup {"graph.json"}
    /\ pc' = "done"
    /\ UNCHANGED <<inputs, r, noteIdx, home, noteFiles, notePage, graphPage, tagPages, searchJSON,
                   run, prev, outcome, serve>>

\* Build is run a second time on the unchanged inputs (rebuild: a new
\* Renderer, then Build).  prev keeps the two JSON artifacts of the first
\* Build.
Rebuild ==
    /\ pc = "done"
    /\ run = 1
    /\ run' = run + 1
    /\ prev' = [search |-> searchJSON, graph |-> graphJSON]
    /\ r' = NewRenderer
    /\ pc' = "loadData"
    /\ noteIdx' = 1
    /\ files' = {}
    /\ home' = <<>>
    /\ noteFiles' = {}
    /\ notePage' = EmptyNotePage
    /\ graphPage' = EmptyGraphPage
    /\ tagPages' = NoPages
    /\ searchJSON' = EmptyIndex
    /\ graphJSON' = EmptyGraph
    /\ warned' = {}
    /\ UNCHANGED <<inputs, err, serve>>

Next ==
    \/ LoadData
    \/ LoadDataFail
    \/ MkdirAll
    \/ GenerateHome
    \/ GenerateNotes
    \/ GenerateNote
    \/ GenerateNoteFail
    \/ GenerateGraph
    \/ GenerateTags
    \/ CopyImages
    \/ GenerateSearchIndex
    \/ GenerateGraphJSON
    \/ Rebuild

(***************************************************************************)
(* Initial states: the inputs of a Build, and a new Renderer.              *)
(***************************************************************************)
Titles == [id \in Ids |-> IF id = "A" THEN "Alpha" ELSE IF id = "B" THEN "Beta" ELSE "Gamma"]

Node(id, file) == [ID |-> id, File |-> file, Title |-> Titles[id]]

Link(s, t) == [Source |-> s, Target |-> t]

AllLinks == {Link(s, t) : s, t \in Ids}

Files == {FileA, FileB, FileC, FileD, FileE}

Exclude(tags, ids, patterns) == [Tags |-> tags, IDs |-> ids, Files |-> patterns]

Display(count, depth) == [RecentCount |-> count, LocalGraphDepth |-> depth]

\* DefaultConfig's recent_count and local_graph_depth.
DefaultRecentCount == 20

DefaultDepth == 2

\* The depths of the model: up to the default depth.
Depths == 0..DefaultDepth

SomeTags == [id \in Ids |-> IF id = "B" THEN <<"draft", "x">> ELSE <<"x">>]

TagLists == {<<>>, <<"x">>, <<"draft">>, <<"x", "draft">>}

Patterns == {<<>>,
             << <<"2","0","2","3","*">> >>,
             << <<"p","*">> >>,
             << <<"r","e","f","/","*">> >>,
             << <<"?",".","o","r","g">>, <<"*","-","b",".","o","r","g">> >>}

Stats == {NoPages,
          [f \in {FileD} |-> Time(20230615, 120000)],
          [f \in {FileD, FileE} |-> IF f = FileD THEN NoStat ELSE Time(20240101, 0)]}

\* Loaded nodes with the excluded ids: every node published, B excluded,
\* and C not in the database at all.
GraphCorpora ==
    {[nodes |-> <<Node("C", FileC), Node("B", FileB), Node("A", FileA)>>, ids |-> {}],
     [nodes |-> <<Node("C", FileC), Node("B", FileB), Node("A", FileA)>>, ids |-> {"B"}],
     [nodes |-> <<Node("B", FileB), Node("A", FileA)>>, ids |-> {}]}

\* Link lists, exclusion by id, unknown ids and depths vary.
GraphInputs ==
    /\ \E c \in GraphCorpora :
          /\ db \in [nodes : {c.nodes}, tags : {SomeTags}, links : SeqsUpTo(AllLinks, MaxLinks)]
          /\ cfg \in [Exclude : {Exclude({}, c.ids, <<>>)},
                      Display : {Display(DefaultRecentCount, d) : d \in Depths}]
    /\ stat = NoPages
    /\ unparsable = {}

\* Files, tags and the three exclusion rules vary.
FilterInputs ==
    /\ db \in [nodes : {<<Node("C", FileC), Node("B", FileB), Node("A", fa)>> : fa \in {FileA, FileD}}
                       \cup {<<Node("A", fa), Node("C", FileC)>> : fa \in {FileA, FileD}},
               tags : {[id \in {"A", "B"} |-> IF id = "A" THEN ta ELSE tb] :
                          ta \in TagLists, tb \in {<<>>, <<"draft">>}},
               links : {<<Link("A", "B"), Link("B", "A")>>}]
    /\ cfg \in [Exclude : {Exclude(t, i, p) : t \in SUBSET Tags, i \in {{}, {"A"}, {"C"}}, p \in Patterns},
                Display : {Display(DefaultRecentCount, 0)}]
    /\ stat = NoPages
    /\ unparsable = {}

\* File names, modification times and recent_count vary.
HomeInputs ==
    /\ db \in [nodes : {<<Node("A", fa), Node("B", fb), Node("C", fc)>> :
                           fa \in Files, fb \in Files, fc \in {FileB, FileC, FileD}},
               tags : {SomeTags},
               links : {<<>>}]
    /\ cfg \in [Exclude : {Exclude({}, {}, <<>>)},
                Display : {Display(c, 1) : c \in 0..MaxRecent}]
    /\ stat \in Stats
    /\ unparsable = {}

\* The files that do not parse vary, with C published or excluded.
ParseInputs ==
    /\ db = [nodes |-> <<Node("A", FileA), Node("B", FileB), Node("C", FileC)>>,
             tags |-> SomeTags,
             links |-> <<Link("A", "B"), Link("B", "C")>>]
    /\ cfg \in [Exclude : {Exclude({}, i, <<>>) : i \in {{}, {"C"}}},
                Display : {Display(DefaultRecentCount, 1)}]
    /\ stat = NoPages
    /\ unparsable \in SUBSET {FileA, FileB, FileC} \ {{}}

\* Serve mode before the watch goroutine has handled an event.
ServeIdle ==
    /\ now = 0
    /\ timers = {}
    /\ debounceTimer = 0
    /\ rebuilds = NoPages
    /\ events = 0
    /\ lastEvent = 0
    /\ bursts = 0

\* A new Renderer whose Build has not begun.
BuildIdle ==
    /\ pc = "loadData"
    /\ r = NewRenderer
    /\ noteIdx = 1
    /\ files = {}
    /\ home = <<>>
    /\ noteFiles = {}
    /\ notePage = EmptyNotePage
    /\ graphPage = EmptyGraphPage
    /\ tagPages = NoPages
    /\ searchJSON = EmptyIndex
    /\ graphJSON = EmptyGraph
    /\ run = 1
    /\ prev = [search |-> EmptyIndex, graph |-> EmptyGraph]
    /\ err = ""
    /\ warned = {}

Init ==
    /\ GraphInputs \/ FilterInputs \/ HomeInputs \/ ParseInputs
    /\ BuildIdle
    /\ ServeIdle

Spec == Init /\ [][Next]_vars

(***************************************************************************)
(* Serve mode: the watch goroutine of serveCmd, the timers it arms and the *)
(* goroutines in which the timers' callbacks run rebuild.  serveCmd's      *)
(* first rebuild has returned before the watcher exists.  Every rebuild    *)
(* has a Renderer of its own; what its Build writes is the subject of the  *)
(* actions above, and here a rebuild is its call and its return.           *)
(***************************************************************************)
\* The debounce window: time.AfterFunc(500*time.Millisecond, ...).
DebounceMs == 500

\* The clock advances in fifths of the window.
Step == DebounceMs \div 5

\* filepath.Ext: the suffix that begins at the last dot of the last element
\* of the path, empty when that element has no dot.
Ext(path) ==
    LET dots == {i \in DOMAIN path : path[i] = "." /\ \A j \in i..Len(path) : path[j] # "/"}
    IN  IF dots = {} THEN <<>>
        ELSE SubSeq(path, CHOOSE i \in dots : \A j \in dots : j <= i, Len(path))

\* fsnotify's Event.Has: the operation is among the event's operations.
Has(event, op) == op \in event.Op

DotOrg == <<".", "o", "r", "g">>

\* The events of the watched directory: writes, creations and writes with
\* a mode change, of an org file, its backup, a text file and a file
\* without extension in a directory with a dot.
WatchEvents ==
    [Op : {{"WRITE"}, {"CREATE"}, {"WRITE", "CHMOD"}},
     Name : {FileD, FileD \o <<"~">>, <<"n", ".", "t", "x", "t">>, <<"r", ".", "d", "/", "n">>}]

\* Timer.Stop: a pending timer is removed; a timer that has fired is not
\* pending and its callback runs on.
Stop(id) == {t \in timers : t.id # id}

\* Variant: the timer the goroutine holds is not stopped before the next
\* one is armed.
WatchEventNoStop ==
    /\ \E event \in WatchEvents :
          IF Has(event, "WRITE") /\ Ext(event.Name) = DotOrg
          THEN /\ events < MaxEvents
               /\ events' = events + 1
               /\ timers' = timers \cup {[id |-> events + 1, deadline |-> now + DebounceMs]}
               /\ debounceTimer' = events + 1
               /\ lastEvent' = now
               /\ bursts' = IF timers = {} THEN bursts + 1 ELSE bursts
               /\ UNCHANGED <<now, rebuilds>>
          ELSE UNCHANGED serve
    /\ UNCHANGED <<inputs, pc, r, noteIdx, artifacts, run, prev, outcome>>

\* The watch goroutine receives an event: a write to a .org file stops the
\* timer it holds, if any, and arms a new one; any other event is dropped.
WatchEvent ==
    /\ \E event \in WatchEvents :
          IF Has(event, "WRITE") /\ Ext(event.Name) = DotOrg
          THEN /\ events < MaxEvents
               /\ events' = events + 1
               /\ timers' = (IF debounceTimer # 0 THEN Stop(debounceTimer) ELSE timers)
                             \cup {[id |-> events + 1, deadline |-> now + DebounceMs]}
               /\ debounceTimer' = events + 1
               /\ lastEvent' = now
               /\ bursts' = IF timers = {} THEN bursts + 1 ELSE bursts
               /\ UNCHANGED <<now, rebuilds>>
          ELSE UNCHANGED serve
    /\ UNCHANGED <<inputs, pc, r, noteIdx, artifacts, run, prev, outcome>>

\* A timer that is due fires: its callback starts in a goroutine of its
\* own and calls rebuild.
TimerFire ==
    /\ \E t \in timers :
          /\ t.deadline <= now
          /\ timers' = timers \ {t}
          /\ rebuilds' = [g \in DOMAIN rebuilds \cup {t.id} |->
                             IF g = t.id THEN [pc |-> "rebuild", at |-> now, last |-> lastEvent]
                             ELSE rebuilds[g]]
    /\ UNCHANGED <<now, debounceTimer, events, lastEvent, bursts>>
    /\ UNCHANGED <<inputs, pc, r, noteIdx, artifacts, run, prev, outcome>>

\* rebuild returns in a callback's goroutine: its Build is over, with or
\* without an error.
RebuildReturn ==
    /\ \E g \in DOMAIN rebuilds :
          /\ rebuilds[g].pc = "rebuild"
          /\ rebuilds' = [rebuilds EXCEPT ![g].pc = "done"]
    /\ UNCHANGED <<now, timers, debounceTimer, events, lastEvent, bursts>>
    /\ UNCHANGED <<inputs, pc, r, noteIdx, artifacts, run, prev, outcome>>

\* Time passes, up to the moment the next timer is due: a timer fires when
\* its duration has elapsed.
Tick ==
    /\ now + Step <= MaxTime
    /\ \A t \in timers : now + Step <= t.deadline
    /\ now' = now + Step
    /\ UNCHANGED <<timers, debounceTimer, rebuilds, events, lastEvent, bursts>>
    /\ UNCHANGED <<inputs, pc, r, noteIdx, artifacts, run, prev, outcome>>

NextServe ==
    \/ WatchEvent
    \/ TimerFire
    \/ RebuildReturn
    \/ Tick

\* The corpus served: one note.
ServeCorpus ==
    /\ db = [nodes |-> <<Node("A", FileD)>>, tags |-> SomeTags, links |-> <<>>]
    /\ cfg = [Exclude |-> Exclude({}, {}, <<>>), Display |-> Display(DefaultRecentCount, DefaultDepth)]
    /\ stat = NoPages
    /\ unparsable = {}

InitServe ==
    /\ ServeCorpus
    /\ BuildIdle
    /\ ServeIdle

SpecServe == InitServe /\ [][NextServe]_vars

(***************************************************************************)
(* Properties.                                                             *)
(***************************************************************************)
NodeIds(g) == {g.Nodes[i].ID : i \in DOMAIN g.Nodes}

EntryIds(idx) == {idx.Entries[i].ID : i \in DOMAIN idx.Entries}

Loaded == pc \notin {"loadData", "failed"}

\* loadData has just returned: the Renderer holds the corpus of this Build.
JustLoaded == pc = "mkdir"

\* The graphs the Build has emitted so far: the graph page's, graph.json
\* and the local graph of the note page rendered last.
GlobalGraphs ==
    (IF "graph.html" \in files THEN {graphPage.GraphJSON} ELSE {})
    \cup (IF "graph.json" \in files THEN {graphJSON} ELSE {})

LocalGraphs == IF notePage.ID # "" THEN {notePage.LocalGraph} ELSE {}

\* C1: after a successful Build the node ids of graph.json, the node ids of
\* search.json and the ids of the published node list are the same set.
C1_IdSetsAgree ==
    pc = "done" =>
        /\ NodeIds(graphJSON) = EntryIds(searchJSON)
        /\ NodeIds(graphJSON) = IdsOf(r.nodes)

C1_Witness ==
    /\ pc = "done"
    /\ r.nodes # <<>>
    /\ Len(r.nodes) < Len(db.nodes)
    /\ \E i \in DOMAIN r.nodes : r.nodes[i].ID \notin DOMAIN r.nodeTags
    /\ NodeIds(graphJSON) = IdsOf(r.nodes)

NoDangling(g) ==
    \A i \in DOMAIN g.Links : g.Links[i].Source \in NodeIds(g) /\ g.Links[i].Target \in NodeIds(g)

\* C2: in every emitted graph, global or local, both endpoints of every edge
\* are ids of nodes of that graph.
C2_NoDanglingEdges == \A g \in GlobalGraphs \cup LocalGraphs : NoDangling(g)

\* The ids of the nodes that carry an excluded tag.
Hidden == {id \in Ids : Range(Lookup(db.tags, id)) \cap cfg.Exclude.Tags # {}}

TagsWritten == pc \in {"images", "search", "graphJSON", "done"}

\* C3: no node carrying an excluded tag is an entry of search.json, a node or
\* edge endpoint of graph.json, a backlink of a note page or a note of a tag
\* page; and the tag pages are exactly the tags that published nodes carry.
C3_ExcludedTagHidden ==
    /\ EntryIds(searchJSON) \cap Hidden = {}
    /\ NodeIds(graphJSON) \cap Hidden = {}
    /\ \A i \in DOMAIN graphJSON.Links :
          graphJSON.Links[i].Source \notin Hidden /\ graphJSON.Links[i].Target \notin Hidden
    /\ \A i \in DOMAIN notePage.Backlinks : notePage.Backlinks[i].ID \notin Hidden
    /\ \A t \in DOMAIN tagPages : \A i \in DOMAIN tagPages[t] : tagPages[t][i].ID \notin Hidden
    /\ TagsWritten =>
          DOMAIN tagPages = {t \in Tags : \E i \in DOMAIN r.nodes : t \in Range(Lookup(db.tags, r.nodes[i].ID))}

C3_Witness ==
    /\ pc = "done"
    /\ cfg.Exclude.Tags = {"draft"}
    /\ "B" \in Hidden /\ "B" \in IdsOf(db.nodes)
    /\ notePage.ID = "A"
    /\ r.backlinks["A"] = <<"B">>
    /\ notePage.Backlinks = <<>>
    /\ DOMAIN tagPages = {"x"}
    /\ EntryIds(searchJSON) = {"A", "C"}

\* A node is kept when none of the three exclusion rules applies to it.
Kept(n) ==
    /\ n.ID \notin cfg.Exclude.IDs
    /\ Range(Lookup(db.tags, n.ID)) \cap cfg.Exclude.Tags = {}
    /\ \A i \in DOMAIN cfg.Exclude.Files : ~Match(cfg.Exclude.Files[i], Base(n.File))

\* C4: the published list is the loaded list without the nodes an exclusion
\* rule applies to, in the loaded order, each kept node once.
C4_FilterKeepsExactly == Loaded => r.nodes = SelectSeq(db.nodes, Kept)

\* A pattern that matches only the base name of C's file excludes C, and
\* the nodes no rule applies to keep their order.
C4_Witness ==
    /\ Loaded
    /\ cfg.Exclude.Files = << <<"p", "*">> >>
    /\ cfg.Exclude.IDs = {}
    /\ cfg.Exclude.Tags = {"draft"}
    /\ [i \in DOMAIN db.nodes |-> db.nodes[i].ID] = <<"C", "B", "A">>
    /\ db.tags["A"] = <<"x">> /\ db.tags["B"] = <<>>
    /\ [i \in DOMAIN r.nodes |-> r.nodes[i].ID] = <<"B", "A">>

PageAtDepth0 == notePage.ID # "" /\ cfg.Display.LocalGraphDepth = 0

SelfLinks(id, links) == SelectSeq(links, LAMBDA l : l.Source = id /\ l.Target = id)

\* C5 as stated: the local graph of a published note at depth 0 has exactly
\* one node, the note, and no edge.
C5_Depth0NoEdges ==
    PageAtDepth0 =>
        /\ Len(notePage.LocalGraph.Nodes) = 1
        /\ notePage.LocalGraph.Nodes[1].ID = notePage.ID
        /\ notePage.LocalGraph.Links = <<>>

\* C5, amended: the local graph of a published note at depth 0 has exactly
\* one node, the note, and its edges are exactly the self-links of the note
\* in the link list (no edge when the note has no self-link).
C5_Depth0OnlySelfLinks ==
    PageAtDepth0 =>
        /\ Len(notePage.LocalGraph.Nodes) = 1
        /\ notePage.LocalGraph.Nodes[1].ID = notePage.ID
        /\ notePage.LocalGraph.Links = SelfLinks(notePage.ID, r.links)
        /\ ~notePage.HasGraph

C5_Witness ==
    /\ PageAtDepth0
    /\ notePage.ID = "A"
    /\ r.links = <<Link("A", "A"), Link("A", "B")>>
    /\ "B" \in IdsOf(r.nodes)
    /\ Len(notePage.LocalGraph.Links) = 1

\* The ids at most d undirected hops from id over the link list.
RECURSIVE WithinHops(_, _, _)
WithinHops(id, d, links) ==
    IF d = 0 THEN {id}
    ELSE LET ball == WithinHops(id, d - 1, links)
         IN  ball \cup {y \in Ids : \E x \in ball : \E i \in DOMAIN links :
                           \/ links[i].Source = x /\ links[i].Target = y
                           \/ links[i].Target = x /\ links[i].Source = y}

\* C6: the visited set of LocalGraph is the set of ids at most D hops from
\* the focal id over the whole link list; with A->B and B->C only, depth 1
\* from B visits A, B and C and depth 1 from A visits A and B.
C6_VisitedIsBall ==
    JustLoaded =>
        /\ \A id \in Ids : \A d \in Depths :
              Visited(id, d, r.links) = WithinHops(id, d, r.links)
        /\ r.links = <<Link("A", "B"), Link("B", "C")>> =>
              /\ Visited("B", 1, r.links) = {"A", "B", "C"}
              /\ Visited("A", 1, r.links) = {"A", "B"}

\* The page of A at depth 1 over A->B, B->C with every node published: C is
\* two hops away and not in A's local graph.
C6_Witness ==
    /\ notePage.ID = "A"
    /\ cfg.Display.LocalGraphDepth = 1
    /\ r.links = <<Link("A", "B"), Link("B", "C")>>
    /\ IdsOf(r.nodes) = {"A", "B", "C"}
    /\ NodeIds(notePage.LocalGraph) = {"A", "B"}

SomeOrder(set) == CHOOSE o \in Perms(set) : TRUE

LocalNodeIds(id, d) ==
    NodeIds(LocalGraph(id, d, r.nodes, r.links, r.nodeTags, SomeOrder(Visited(id, d, r.links))))

\* C7: the visited set at depth D contains the visited set at depth D-1, and
\* so does the emitted node set, for every focal id and D >= 1.
C7_VisitedMonotonic ==
    JustLoaded =>
        \A id \in Ids : \A d \in Depths \ {0} :
            /\ Visited(id, d - 1, r.links) \subseteq Visited(id, d, r.links)
            /\ LocalNodeIds(id, d - 1) \subseteq LocalNodeIds(id, d)

\* A page rendered at depth 2 whose visited set grows at each depth.
C7_Witness ==
    /\ notePage.ID = "A"
    /\ cfg.Display.LocalGraphDepth = 2
    /\ Visited("A", 0, r.links) # Visited("A", 1, r.links)
    /\ Visited("A", 1, r.links) # Visited("A", 2, r.links)
    /\ NodeIds(notePage.LocalGraph) = {"A", "B", "C"}

Touching(g, id) ==
    Cardinality({i \in DOMAIN g.Links : g.Links[i].Source = id})
    + Cardinality({i \in DOMAIN g.Links : g.Links[i].Target = id})

BothPublished(l) == l.Source \in IdsOf(r.nodes) /\ l.Target \in IdsOf(r.nodes)

\* C8: in the global graph the edges are the links with both endpoints
\* published, and every node's linkCount is the number of edges it is the
\* source of plus the number it is the target of (a self-link counts twice).
C8_GlobalLinkCount ==
    \A g \in GlobalGraphs :
        /\ g.Links = SelectSeq(r.links, BothPublished)
        /\ \A i \in DOMAIN g.Nodes : g.Nodes[i].LinkCount = Touching(g, g.Nodes[i].ID)

\* A published node with a self-link and a link to an unpublished node.
C8_Witness ==
    /\ pc = "done"
    /\ r.links = <<Link("A", "A"), Link("A", "B")>>
    /\ "B" \notin IdsOf(r.nodes)
    /\ \E i \in DOMAIN graphJSON.Nodes :
          graphJSON.Nodes[i].ID = "A" /\ graphJSON.Nodes[i].LinkCount = 2

\* C9: the second Build on unchanged inputs writes the same search.json and
\* a graph.json with the same node set and the same edge set.
C9_RebuildSameArtifacts ==
    (run = 2 /\ pc = "done") =>
        /\ searchJSON = prev.search
        /\ Range(graphJSON.Nodes) = Range(prev.graph.Nodes)
        /\ Range(graphJSON.Links) = Range(prev.graph.Links)

C9_Witness ==
    /\ run = 2 /\ pc = "done"
    /\ Len(searchJSON.Entries) = 3
    /\ Len(graphJSON.Links) = 2
    /\ prev.search = searchJSON

Date(n) == extractDateFromFilename(n.File, stat)

\* The published nodes by date descending, ties in published order.
StableByDate(nodes) ==
    LET p == CHOOSE q \in Perms(DOMAIN nodes) :
                \A i, j \in DOMAIN nodes : i < j =>
                    \/ After(Date(nodes[q[i]]), Date(nodes[q[j]]))
                    \/ Date(nodes[q[i]]) = Date(nodes[q[j]]) /\ q[i] < q[j]
    IN  [i \in DOMAIN nodes |-> nodes[p[i]]]

\* C10: the home page lists the published notes by effective date
\* descending, notes of equal date in their published order.
C10_HomeStableByDate ==
    "index.html" \in files =>
        \A i \in DOMAIN home : home[i].ID = StableByDate(r.nodes)[i].ID

HomeIds == [i \in DOMAIN home |-> home[i].ID]

\* C11: the home page holds the first min(recent_count, N) notes of the N
\* published notes sorted by date descending: that many distinct notes, in
\* date order, none of them older than a note left out; when recent_count
\* is N or more every published note is listed, and Build has no error.
C11_HomeIsSortedPrefix ==
    "index.html" \in files =>
        LET n == Len(r.nodes)
            shown == Range(HomeIds)
        IN  /\ Len(home) = Min(cfg.Display.RecentCount, n)
            /\ Cardinality(shown) = Len(home)
            /\ \A i \in DOMAIN home : \E j \in DOMAIN r.nodes :
                  home[i] = NotePreview(r.nodes[j], r.nodeTags, Date(r.nodes[j]))
            /\ \A i, j \in DOMAIN home : i < j => ~After(home[j].ModTime, home[i].ModTime)
            /\ \A j \in DOMAIN r.nodes : r.nodes[j].ID \notin shown =>
                  \A i \in DOMAIN home : ~After(Date(r.nodes[j]), home[i].ModTime)
            /\ cfg.Display.RecentCount >= n => shown = IdsOf(r.nodes)
            /\ err = ""

\* recent_count (20) exceeds the two published notes: both are listed, the
\* later one first.
C11_Witness ==
    /\ "index.html" \in files
    /\ cfg.Display.RecentCount > Len(r.nodes)
    /\ Len(db.nodes) = 3
    /\ HomeIds = <<"C", "A">>
    /\ err = ""

\* C12: when loadData fails, Build returns its error and has written
\* nothing: no output directory, no page, no search.json, no graph.json;
\* and Build returns an error only then.
C12_FailedLoadWritesNothing ==
    /\ pc = "failed" =>
          /\ err \in LoadErrors
          /\ files = {} /\ noteFiles = {}
          /\ home = <<>> /\ notePage = EmptyNotePage /\ graphPage = EmptyGraphPage
          /\ tagPages = NoPages /\ searchJSON = EmptyIndex /\ graphJSON = EmptyGraph
    /\ err # "" <=> pc = "failed"

\* The second Build of a corpus of three notes fails to load its links.
C12_Witness ==
    /\ pc = "failed"
    /\ run = 2
    /\ err = "failed to load links"
    /\ Len(db.nodes) = 3
    /\ files = {}

Unparsed == {id \in IdsOf(r.nodes) : \E i \in DOMAIN r.nodes : r.nodes[i].ID = id /\ r.nodes[i].File \in unparsable}

NotesDone == pc \in {"graph", "tags", "images", "search", "graphJSON", "done"}

\* C13: a note whose file does not parse gets no page and a warning; every
\* other published note gets its page, the later stages run (graph page,
\* tag pages, search.json, graph.json) and Build returns no error: a Build
\* that returns an error has loaded nothing.
C13_ParseFailureSkipsNote ==
    /\ NotesDone =>
          /\ noteFiles = IdsOf(r.nodes) \ Unparsed
          /\ warned = Unparsed
    /\ pc = "done" =>
          /\ {"graph.html", "search.json", "graph.json"} \subseteq files
          /\ DOMAIN tagPages = UNION {Range(Lookup(r.nodeTags, id)) : id \in IdsOf(r.nodes)}
          /\ EntryIds(searchJSON) = IdsOf(r.nodes)
          /\ err = ""
    /\ pc = "failed" => (warned = {} /\ r = NewRenderer)

\* B does not parse: A and C have their pages and the Build is complete.
C13_Witness ==
    /\ pc = "done"
    /\ unparsable = {FileB}
    /\ warned = {"B"}
    /\ noteFiles = {"A", "C"}
    /\ notePage.ID = "C"
    /\ "graph.json" \in files
    /\ err = ""

\* C16: in a local graph the edges are the links with both endpoints visited
\* and published, and the linkCount of each node is the number of those
\* edges it is the source of plus the number it is the target of; a link to
\* a visited, unpublished node counts for no node.
C16_LocalLinkCount ==
    notePage.ID # "" =>
        LET g == notePage.LocalGraph
            visited == Visited(notePage.ID, cfg.Display.LocalGraphDepth, r.links)
            q == SelectSeq(r.links, LAMBDA l : /\ l.Source \in visited
                                               /\ l.Target \in visited
                                               /\ BothPublished(l))
        IN  /\ g.Links = q
            /\ \A i \in DOMAIN g.Nodes :
                  /\ g.Nodes[i].LinkCount = Touching(g, g.Nodes[i].ID)
                  /\ g.Nodes[i].LinkCount =
                        Cardinality({k \in DOMAIN q : q[k].Source = g.Nodes[i].ID})
                        + Cardinality({k \in DOMAIN q : q[k].Target = g.Nodes[i].ID})

BacklinkIds == [i \in DOMAIN notePage.Backlinks |-> notePage.Backlinks[i].ID]

\* C17: the backlinks of a note page are the sources of the links whose
\* target is the note, in link order, one entry per link, without the
\* sources that are not published; each entry carries the source's title.
C17_BacklinksInLinkOrder ==
    notePage.ID # "" =>
        LET incoming == SelectSeq(r.links, LAMBDA l : l.Target = notePage.ID /\ l.Source \in IdsOf(r.nodes))
        IN  /\ BacklinkIds = [i \in DOMAIN incoming |-> incoming[i].Source]
            /\ \A i \in DOMAIN notePage.Backlinks :
                  notePage.Backlinks[i].Title = Titles[notePage.Backlinks[i].ID]
            /\ err = ""

\* B and C link to A and B is excluded: the page of A lists C only.
C17_Witness ==
    /\ notePage.ID = "A"
    /\ r.links = <<Link("B", "A"), Link("C", "A")>>
    /\ "B" \in IdsOf(db.nodes) \ IdsOf(r.nodes)
    /\ r.backlinks["A"] = <<"B", "C">>
    /\ BacklinkIds = <<"C">>

RECURSIVE Distinct(_)
Distinct(s) ==
    IF s = <<>> THEN <<>>
    ELSE LET d == Distinct(SubSeq(s, 1, Len(s) - 1))
         IN  IF s[Len(s)] \in Range(d) THEN d ELSE Append(d, s[Len(s)])

\* The tags in the order in which they are first met, going through the
\* tag lists of the node -> tags map by node id.
FirstObserved ==
    Distinct(Lookup(r.nodeTags, "A") \o Lookup(r.nodeTags, "B") \o Lookup(r.nodeTags, "C"))

\* The tags by count descending, tags of equal count in first-observed order.
TopByCount(counts) ==
    LET o == FirstObserved
        p == CHOOSE q \in Perms(DOMAIN o) :
                \A i, j \in DOMAIN o : i < j =>
                    \/ counts[o[q[i]]] > counts[o[q[j]]]
                    \/ counts[o[q[i]]] = counts[o[q[j]]] /\ q[i] < q[j]
    IN  [i \in DOMAIN o |-> o[p[i]]]

\* C18: the top-tags list is the (at most ten) distinct tags by count
\* descending, tags of equal count in first-observed order, one list for
\* one input; the all-tags list is the distinct tags in lexicographic order.
C18_TopTagsDeterministic ==
    "graph.html" \in files =>
        LET counts == tagCounts(r.nodeTags)
            top == TopByCount(counts)
        IN  /\ graphPage.TopTags = SubSeq(top, 1, Min(TopTagsLimit, Len(top)))
            /\ graphPage.AllTags = sortStrings(DOMAIN counts)
            /\ Cardinality(Range(graphPage.AllTags)) = Len(graphPage.AllTags)

Running == {g \in DOMAIN rebuilds : rebuilds[g].pc = "rebuild"}

\* C14: the watcher debounces with a trailing window of 500 ms.  At most one
\* timer is pending, armed by the last qualifying event for a full window
\* after it; an event within the window of the previous one finds that
\* timer pending and restarts it; every burst (the events from one that
\* finds no timer pending to the next such one) has exactly one rebuild,
\* pending or started; and a rebuild starts a full window or more after the
\* last qualifying event before it.
C14_DebounceOneRebuild ==
    /\ Cardinality(timers) <= 1
    /\ \A t \in timers :
          /\ t.id = events /\ debounceTimer = t.id
          /\ t.deadline = lastEvent + DebounceMs
    /\ (events > 0 /\ now < lastEvent + DebounceMs) => timers # {}
    /\ Cardinality(DOMAIN rebuilds) + Cardinality(timers) = bursts
    /\ \A g \in DOMAIN rebuilds : rebuilds[g].at >= rebuilds[g].last + DebounceMs

\* A burst of three writes, 100 ms apart: one rebuild, 500 ms after the
\* third write.
C14_Witness ==
    /\ events = 3 /\ bursts = 1
    /\ lastEvent = 2 * Step
    /\ timers = {}
    /\ DOMAIN rebuilds = {3}
    /\ rebuilds[3].at = lastEvent + DebounceMs

\* C15: at no point are two rebuilds executing.
C15_RebuildsSerialized == Cardinality(Running) <= 1

=============================================================================
